---- MODULE Spec2Model ----
(***************************************************************************)
(* Model of organize-imports-cli (src/cli.js): the command-line entry, the *)
(* routing of file paths to projects, the batch loop that organizes the    *)
(* imports of each file and detects changes, and the per-project           *)
(* finalization (report and exit 2, or save).                              *)
(***************************************************************************)
EXTENDS Integers, Sequences, FiniteSets, TLC

(***************************************************************************)
(* Bounds of the model.                                                    *)
(***************************************************************************)
\* Longest command line (arguments after the script name).
MaxArgs == 3
\* Number of successive invocations of the program with the same command line.
MaxRuns == 2
\* Longest import text given to serializeImports on its own.
MaxLen == 3

(***************************************************************************)
(* Characters and texts.  A text is a sequence of one-character strings;   *)
(* the ignore marker is kept as one token.                                 *)
(***************************************************************************)
SQ == "'"
DQ == "\""
SP == " "
TAB == "\t"
NL == "\n"
CR == "\r"
IgnoreMarker == "// organize-imports-ignore"
Undefined == "undefined"

\* JavaScript \s and \w on the characters the model uses.
IsSpace(c) == c \in {SP, TAB, NL, CR}
IsWord(c) == c \in {"i", "a", "b", "c", "x", "_", "0"}

RECURSIVE Flatten(_)
Flatten(ss) == IF ss = <<>> THEN <<>> ELSE Head(ss) \o Flatten(Tail(ss))

\* String.prototype.includes for a two-character needle.
IncludesPair(s, c1, c2) ==
  \E k \in 1..(Len(s) - 1) : s[k] = c1 /\ s[k + 1] = c2

Includes(s, c) == \E k \in 1..Len(s) : s[k] = c

(***************************************************************************)
(* serializeImports (cli.js 194-203): the four replace steps.              *)
(***************************************************************************)
ReplaceQuotesNone(s) == s

\* .replace(/'/g, '"')
ReplaceQuotes(s) == [k \in 1..Len(s) |-> IF s[k] = SQ THEN DQ ELSE s[k]]

CollapseSpaceEach(s) == [k \in 1..Len(s) |-> IF IsSpace(s[k]) THEN TAB ELSE s[k]]

\* .replace(/\s+/g, "\t"): every maximal run of whitespace becomes one tab.
RECURSIVE CollapseSpace(_)
CollapseSpace(s) ==
  IF s = <<>> THEN <<>>
  ELSE IF IsSpace(Head(s))
       THEN IF Len(s) > 1 /\ IsSpace(s[2])
            THEN CollapseSpace(Tail(s))
            ELSE <<TAB>> \o CollapseSpace(Tail(s))
       ELSE <<Head(s)>> \o CollapseSpace(Tail(s))

\* .replace(/(\w)\t(\w)/g, "$1 $2"): matches are found left to right and do
\* not overlap, so the scan resumes after the second word character.
RECURSIVE WordTabWord(_)
WordTabWord(s) ==
  IF s = <<>> THEN <<>>
  ELSE IF Len(s) >= 3 /\ IsWord(s[1]) /\ s[2] = TAB /\ IsWord(s[3])
       THEN <<s[1], SP, s[3]>> \o WordTabWord(SubSeq(s, 4, Len(s)))
       ELSE <<Head(s)>> \o WordTabWord(Tail(s))

\* .replace(/\t/g, "")
RemoveTabs(s) == SelectSeq(s, LAMBDA c : c # TAB)

\* The normalisation applied to the joined declaration texts.
NormalizeImports(s) == RemoveTabs(WordTabWord(CollapseSpace(ReplaceQuotes(s))))

(***************************************************************************)
(* Source files.  A file's text is its import declarations (each followed  *)
(* by the line terminator eol) and a body.                                 *)
(***************************************************************************)
FullText(t) ==
  Flatten([k \in 1..Len(t.decls) |-> t.decls[k] \o t.eol]) \o t.body

\* sourceFile.getImportDeclarations().map(d => d.getText()).join("")
\* followed by the normalisation.
SerializeImports(t) == NormalizeImports(Flatten(t.decls))

\* fullText.includes("// organize-imports-ignore")
HasIgnoreMarker(t) == Includes(FullText(t), IgnoreMarker)

\* fullText.includes("\r\n")
HasCrLf(t) == IncludesPair(FullText(t), CR, NL)

\* An import declaration of module m, written with quote q and spacing gap.
Decl(q, gap, m) == <<"i">> \o gap \o <<q, m, q>>

ModuleOf(d) ==
  LET k == CHOOSE j \in 1..Len(d) :
             /\ d[j] \in {SQ, DQ}
             /\ \A l \in 1..(j - 1) : d[l] \notin {SQ, DQ}
  IN  d[k + 1]

\* The order in which the engine sorts module names.
ModuleOrder == <<"a", "b", "c">>

\* sourceFile.organizeImports(): the engine's transform, which sorts and
\* deduplicates the declarations and rewrites them in the project's quote
\* style (always single).  It is idempotent and leaves the body alone.
OrganizeImports(t) ==
  LET mods    == {ModuleOf(t.decls[k]) : k \in 1..Len(t.decls)}
      present == SelectSeq(ModuleOrder, LAMBDA m : m \in mods)
  IN  [t EXCEPT !.decls = [k \in 1..Len(present) |-> Decl(SQ, <<SP>>, present[k])]]

(***************************************************************************)
(* The file system the program runs on.                                    *)
(***************************************************************************)
CfgA == "a/tsconfig.json"
CfgB == "b/tsconfig.json"
Null == "null"
Fake == "fake"
ListDifferentFlag == "--list-different"
HelpFlag == "--help"

Files == {"a/p.ts", "a/q.ts", "a/r.ts", "a/u.js", "b/s.ts", "c/t.js", CfgA}

Unsorted(m1, m2) == <<Decl(SQ, <<SP>>, m1), Decl(SQ, <<SP>>, m2)>>

InitDisk ==
  [p \in Files |->
     CASE p = "a/p.ts" -> [decls |-> Unsorted("b", "a"), eol |-> <<NL>>,
                           body |-> <<"x", NL>>]
       [] p = "a/q.ts" -> [decls |-> Unsorted("b", "a"), eol |-> <<CR, NL>>,
                           body |-> <<"x", CR, NL>>]
       [] p = "a/r.ts" -> [decls |-> Unsorted("b", "a"), eol |-> <<CR, NL>>,
                           body |-> <<IgnoreMarker, CR, NL>>]
       [] p = "a/u.js" -> [decls |-> Unsorted("c", "a"), eol |-> <<NL>>,
                           body |-> <<"x", NL>>]
       [] p = "b/s.ts" -> [decls |-> <<Decl(DQ, <<SP, SP>>, "a"),
                                       Decl(SQ, <<SP>>, "b")>>,
                           eol |-> <<NL>>, body |-> <<"x", NL>>]
       [] p = "c/t.js" -> [decls |-> Unsorted("c", "b"), eol |-> <<CR, NL>>,
                           body |-> <<"x", CR, NL>>]
       [] OTHER        -> [decls |-> <<>>, eol |-> <<NL>>, body |-> <<"x", NL>>]]

\* path.dirname
Dirname(p) ==
  CASE p \in {"a/p.ts", "a/q.ts", "a/r.ts", "a/u.js", CfgA} -> "a"
    [] p = "b/s.ts" -> "b"
    [] OTHER -> "c"

\* tsconfig.findSync: the nearest configuration file of a directory.
FindSync(dir) ==
  CASE dir = "a" -> CfgA
    [] dir = "b" -> CfgB
    [] OTHER -> Null

\* The source files a configuration declares (project.getSourceFile finds
\* exactly these).
ConfigSources(cfg) ==
  CASE cfg = CfgA -> {"a/p.ts", "a/q.ts", "a/r.ts"}
    [] cfg = CfgB -> {"b/s.ts"}
    [] OTHER -> {}

\* editorconfig.parseSync
ParseSync(p) ==
  CASE Dirname(p) = "a" ->
         [indent_style |-> "tab", tab_width |-> 8, end_of_line |-> "lf"]
    [] Dirname(p) = "b" ->
         [indent_style |-> "space", tab_width |-> 2, end_of_line |-> "crlf"]
    [] OTHER ->
         [indent_style |-> Undefined, tab_width |-> 4, end_of_line |-> Undefined]

\* JavaScript truthiness of a string-or-null value.
Truthy(v) == v \notin {Null, Undefined, ""}

(***************************************************************************)
(* Style resolution and the project registry (cli.js 116-177).             *)
(***************************************************************************)
GetManipulationSettings(ec) ==
  [indentationText |->
     IF ec.indent_style = "tab" THEN "Tab"
     ELSE IF ec.tab_width = 2 THEN "TwoSpaces" ELSE "FourSpaces",
   newLineKind |->
     IF ec.end_of_line = "crlf" THEN "CarriageReturnLineFeed" ELSE "LineFeed",
   quoteKind |-> "Single"]

CreateProjectEntry(filePath, tsConfigFilePath) ==
  LET ec == ParseSync(filePath)
  IN  [files |-> <<>>,
       project |-> [tsConfigFilePath |-> tsConfigFilePath,
                    allowJs |-> ~Truthy(tsConfigFilePath),
                    manipulationSettings |-> GetManipulationSettings(ec)],
       detectNewLineKind |-> Truthy(ec.end_of_line),
       createdBy |-> filePath]

\* The registry is the object `projects`: a sequence of keyed entries in
\* insertion order (the order Object.values walks).
KeyOf(tsConfigFilePath) ==
  IF Truthy(tsConfigFilePath) THEN tsConfigFilePath ELSE Fake

\* if (!projects[key])
HasKey(projs, key) == \E k \in 1..Len(projs) : projs[k].key = key

EntryExistsNever(projs, key) == FALSE

\* The same test inside getProjectEntry.
EntryExists(projs, key) == HasKey(projs, key)

IndexOf(projs, key) == CHOOSE k \in 1..Len(projs) : projs[k].key = key

Event(op, key, path) == [op |-> op, key |-> key, path |-> path]

\* Source files a new Project holds right after construction: those its
\* configuration declares, read from disk.
LoadSources(mem, dsk, paths) ==
  [p \in (DOMAIN mem) \cup paths |-> IF p \in DOMAIN mem THEN mem[p] ELSE dsk[p]]

GetProjectEntryRefresh(h, dsk, filePath, tsConfigFilePath) ==
  LET key == KeyOf(tsConfigFilePath)
  IN  IF HasKey(h.projects, key)
      THEN [h EXCEPT !.projects[IndexOf(h.projects, key)].detectNewLineKind =
                        Truthy(ParseSync(filePath).end_of_line)]
      ELSE [projects |-> Append(h.projects,
                                [key |-> key] @@
                                CreateProjectEntry(filePath, tsConfigFilePath)),
            mem      |-> LoadSources(h.mem, dsk, ConfigSources(key)),
            events   |-> Append(h.events, Event("create", key, filePath))]

\* h is the heap the router works on: the registry, the texts held in
\* memory and the record of what happened.
GetProjectEntry(h, dsk, filePath, tsConfigFilePath) ==
  LET key == KeyOf(tsConfigFilePath)
  IN  IF EntryExists(h.projects, key) THEN h
      ELSE [projects |-> Append(h.projects,
                                [key |-> key] @@
                                CreateProjectEntry(filePath, tsConfigFilePath)),
            mem      |-> LoadSources(h.mem, dsk, ConfigSources(key)),
            events   |-> Append(h.events, Event("create", key, filePath))]

PushFileAlways(projs, k, filePath, found) ==
  [projs EXCEPT ![k].files = Append(@, filePath)]

\* if (sourceFile) { files.push(sourceFile); ... }
PushFile(projs, k, filePath, found) ==
  IF found THEN [projs EXCEPT ![k].files = Append(@, filePath)] ELSE projs

ShouldRetryAfterPush(found, tsConfigFilePath) == Truthy(tsConfigFilePath)

\* Lines 127-138: the retry is reached when no source file was found and
\* this is not yet the retry.
ShouldRetry(found, tsConfigFilePath) == ~found /\ Truthy(tsConfigFilePath)

RECURSIVE AddFileToProject(_, _, _, _)
AddFileToProject(h, dsk, filePath, tsConfigFilePath) ==
  LET h1    == GetProjectEntry(h, dsk, filePath, tsConfigFilePath)
      key   == KeyOf(tsConfigFilePath)
      k     == IndexOf(h1.projects, key)
      \* project.getSourceFile(filePath) : project.addExistingSourceFile(filePath)
      found == IF Truthy(tsConfigFilePath)
               THEN filePath \in ConfigSources(tsConfigFilePath)
               ELSE TRUE
      h2    == [h1 EXCEPT
                 !.mem = IF Truthy(tsConfigFilePath) THEN @
                         ELSE LoadSources(@, dsk, {filePath}),
                 !.events = Append(@, Event(IF found THEN "attach" ELSE "miss",
                                            key, filePath))]
      h3    == [h2 EXCEPT !.projects = PushFile(@, k, filePath, found)]
  IN  IF ShouldRetry(found, tsConfigFilePath)
      THEN AddFileToProject(h3, dsk, filePath, Null)
      ELSE h3

(***************************************************************************)
(* Helpers of the batch loop (cli.js 57-111).                              *)
(***************************************************************************)
Range(f) == {f[k] : k \in DOMAIN f}

\* The marker of files === "all" in the entry type.
AllFiles == <<"all">>

\* project.getSourceFiles(): every source file the project holds.
GetSourceFiles(entry) ==
  IF Truthy(entry.project.tsConfigFilePath)
  THEN ConfigSources(entry.project.tsConfigFilePath)
  ELSE Range(entry.files)

SetToSeq(S) ==
  CHOOSE f \in [1..Cardinality(S) -> S] : \A a, b \in 1..Cardinality(S) : a # b => f[a] # f[b]

\* const sourceFiles = files === "all" ? project.getSourceFiles() : files
SourceFilesOf(entry) ==
  IF entry.files = AllFiles THEN SetToSeq(GetSourceFiles(entry)) ELSE entry.files

NeverSkipped(fullText) == FALSE

\* if (fullText.includes("// organize-imports-ignore")) ... continue
IsSkipped(fullText) == HasIgnoreMarker(fullText)

CastVoteAlways(detectNewLineKind, weight, fullText) ==
  weight + (IF HasCrLf(fullText) THEN 1 ELSE -1)

\* if (detectNewLineKind) crLfWeight += fullText.includes("\r\n") ? 1 : -1
CastVote(detectNewLineKind, weight, fullText) ==
  IF detectNewLineKind
  THEN weight + (IF HasCrLf(fullText) THEN 1 ELSE -1)
  ELSE weight

SameAfterFullText(listDiff, before, after) == FullText(before) = FullText(after)

\* The comparison of lines 81-85: TRUE when the file counts as not changed.
SameAfter(listDiff, before, after) ==
  IF listDiff
  THEN SerializeImports(before) = SerializeImports(after)
  ELSE FullText(before) = FullText(after)

NewLineKindKept(weight, current) == current

\* Lines 100-107: the newline kind the project is saved with.
NewLineKindForSave(weight, current) ==
  IF weight # 0
  THEN IF weight > 0 THEN "CarriageReturnLineFeed" ELSE "LineFeed"
  ELSE current

FinishActionSavesUnchanged(listDiff, different) ==
  IF listDiff
  THEN IF Len(different) > 0 THEN "report" ELSE "none"
  ELSE "save"

FinishActionSavesAlways(listDiff, different) ==
  IF Len(different) > 0 THEN "save" ELSE "none"

\* Lines 93-94 and 99: what the end of a project's batch does.
FinishAction(listDiff, different) ==
  IF Len(different) > 0
  THEN IF listDiff THEN "report" ELSE "save"
  ELSE "none"

SaveSyncWritesNothing(dsk, memory, sources) == dsk

\* project.saveSync(): writes the in-memory text of the project's files.
SaveSync(dsk, memory, sources) ==
  [p \in DOMAIN dsk |->
     IF p \in sources /\ p \in DOMAIN memory THEN memory[p] ELSE dsk[p]]

SameIndex(index) == index

\* for (const ... of Object.values(projects)): the loop moves on to the next entry.
NextIndex(index) == index + 1

GetFullTextFromDisk(memory, dsk, path) == dsk[path]

\* const fullText = sourceFile.getFullText(): the text held in memory.
GetFullText(memory, dsk, path) == memory[path]

\* Lines 31-39: the logger writes nothing in list-different mode.
LoggerWrite(listDiff, out, line) == IF listDiff THEN out ELSE Append(out, line)

(***************************************************************************)
(* State.                                                                  *)
(***************************************************************************)
VARIABLES
  argv,           \* process.argv.slice(2)
  run,            \* which invocation of the program this is
  pc,             \* position in the program
  filePaths,      \* main's first parameter
  listDifferent,  \* main's second parameter
  i,              \* index of the routing loop (line 52)
  projects,       \* the registry
  mem,            \* text of each source file held in memory
  disk,           \* text of each file on disk
  diskAtStart,    \* disk at the start of this invocation
  pj,             \* index of the project loop (line 57)
  fi,             \* index of the file loop (line 63)
  sourceFiles,    \* line 58
  differentFiles, \* line 60
  crLfWeight,     \* line 61
  stdout,
  stderr,
  exitCode,
  events,         \* record of routing, transform and save calls
  log,            \* record of every pass of the file loop
  serA,           \* an import text given to serializeImports
  serB,           \* a second import text, derived from serA by edits
  serEdits,       \* the kinds of edit that made serB out of serA
  serCut,         \* where the text is cut into two declarations
  serOutA,        \* serializeImports of serA
  serOutB,        \* serializeImports of serB
  serPc           \* position of the serialization on its own

vars == <<argv, run, pc, filePaths, listDifferent, i, projects, mem, disk,
          diskAtStart, pj, fi, sourceFiles, differentFiles, crLfWeight,
          stdout, stderr, exitCode, events, log,
          serA, serB, serEdits, serCut, serOutA, serOutB, serPc>>

ser == <<serA, serB, serEdits, serCut, serOutA, serOutB, serPc>>

\* serializeImports is not running on its own.
SerIdle ==
  /\ serA = <<>>
  /\ serB = <<>>
  /\ serEdits = {}
  /\ serCut = 0
  /\ serOutA = <<>>
  /\ serOutB = <<>>
  /\ serPc = "idle"

Tokens == Files \cup {ListDifferentFlag, HelpFlag}

NoMem == [p \in {} |-> InitDisk[p]]

Fresh ==
  /\ pc = "entry"
  /\ filePaths = <<>>
  /\ listDifferent = FALSE
  /\ i = 1
  /\ projects = <<>>
  /\ mem = NoMem
  /\ pj = 1
  /\ fi = 1
  /\ sourceFiles = <<>>
  /\ differentFiles = <<>>
  /\ crLfWeight = 0
  /\ stdout = <<>>
  /\ stderr = <<>>
  /\ exitCode = 0
  /\ events = <<>>
  /\ log = <<>>

Init ==
  /\ argv \in UNION {[1..n -> Tokens] : n \in 0..MaxArgs}
  /\ run = 1
  /\ disk = InitDisk
  /\ diskAtStart = InitDisk
  /\ Fresh
  /\ SerIdle

routing == <<i, projects, mem, events>>
batch == <<pj, fi, sourceFiles, differentFiles, crLfWeight, log>>
world == <<argv, run, disk, diskAtStart, ser>>

(***************************************************************************)
(* Module entry (cli.js 14-24).                                            *)
(***************************************************************************)
NoFilesSpecified ==
  /\ pc = "entry"
  /\ Len(argv) + 2 < 3
  /\ stderr' = Append(stderr, <<"No files specified.">>)
  /\ exitCode' = 1
  /\ pc' = "exited"
  /\ UNCHANGED <<world, routing, batch, filePaths, listDifferent, stdout>>

PrintUsage ==
  /\ pc = "entry"
  /\ ~(Len(argv) + 2 < 3)
  /\ HelpFlag \in Range(argv)
  /\ stdout' = Append(stdout, <<"Usage: organize-imports-cli [--list-different] files...">>)
  /\ pc' = "exited"
  /\ UNCHANGED <<world, routing, batch, filePaths, listDifferent, stderr, exitCode>>

\* main's prologue, lines 20-23 and 30-50.
CallMain ==
  /\ pc = "entry"
  /\ ~(Len(argv) + 2 < 3)
  /\ HelpFlag \notin Range(argv)
  /\ filePaths' = SelectSeq(argv, LAMBDA arg : arg # ListDifferentFlag)
  /\ listDifferent' = (ListDifferentFlag \in Range(argv))
  /\ stdout' = LoggerWrite(listDifferent', stdout, <<"Organizing imports...">>)
  /\ projects' = <<>>
  /\ i' = 1
  /\ pc' = "route"
  /\ UNCHANGED <<world, mem, events, batch, stderr, exitCode>>

(***************************************************************************)
(* Routing loop (cli.js 52-55).                                            *)
(***************************************************************************)
RouteFile ==
  /\ pc = "route"
  /\ i <= Len(filePaths)
  /\ LET filePath == filePaths[i]
         tsConfigFilePath == FindSync(Dirname(filePath))
         h == AddFileToProject([projects |-> projects, mem |-> mem, events |-> events],
                               disk, filePath, tsConfigFilePath)
     IN  /\ projects' = h.projects
         /\ mem' = h.mem
         /\ events' = h.events
  /\ i' = i + 1
  /\ UNCHANGED <<world, pc, batch, filePaths, listDifferent, stdout, stderr, exitCode>>

RoutingDone ==
  /\ pc = "route"
  /\ i > Len(filePaths)
  /\ pc' = "project"
  /\ pj' = 1
  /\ UNCHANGED <<world, routing, fi, sourceFiles, differentFiles, crLfWeight, log,
                 filePaths, listDifferent, stdout, stderr, exitCode>>

(***************************************************************************)
(* Project loop (cli.js 57-111).                                           *)
(***************************************************************************)
StartProject ==
  /\ pc = "project"
  /\ pj <= Len(projects)
  /\ sourceFiles' = SourceFilesOf(projects[pj])
  /\ differentFiles' = <<>>
  /\ crLfWeight' = 0
  /\ fi' = 1
  /\ pc' = "file"
  /\ UNCHANGED <<world, routing, pj, log, filePaths, listDifferent, stdout, stderr,
                 exitCode>>

\* One pass of the file loop, lines 63-91.
ProcessFile ==
  /\ pc = "file"
  /\ fi <= Len(sourceFiles)
  /\ LET path     == sourceFiles[fi]
         entry    == projects[pj]
         fullText == GetFullText(mem, disk, path)
         after    == OrganizeImports(fullText)
         same     == SameAfter(listDifferent, fullText, after)
     IN  IF IsSkipped(fullText)
         THEN /\ stdout' = LoggerWrite(listDifferent, stdout, <<path, " (skipped)">>)
              /\ log' = Append(log, [key |-> entry.key, path |-> path,
                                     before |-> fullText, skipped |-> TRUE,
                                     changed |-> FALSE])
              /\ events' = Append(events, Event("skip", entry.key, path))
              /\ UNCHANGED <<mem, crLfWeight, differentFiles>>
         ELSE /\ crLfWeight' = CastVote(entry.detectNewLineKind, crLfWeight, fullText)
              /\ mem' = [mem EXCEPT ![path] = after]
              /\ differentFiles' = IF same THEN differentFiles
                                   ELSE Append(differentFiles, path)
              /\ stdout' = LoggerWrite(listDifferent, stdout,
                                       IF same THEN <<path, "">>
                                       ELSE <<path, "\r", path, " (modified)">>)
              /\ log' = Append(log, [key |-> entry.key, path |-> path,
                                     before |-> fullText, skipped |-> FALSE,
                                     changed |-> ~same])
              /\ events' = Append(events, Event("organize", entry.key, path))
  /\ fi' = fi + 1
  /\ UNCHANGED <<world, i, projects, pc, pj, sourceFiles, filePaths, listDifferent,
                 stderr, exitCode>>

\* Lines 93-110, after the last file of the project.
FinishProject ==
  /\ pc = "file"
  /\ fi > Len(sourceFiles)
  /\ LET act == FinishAction(listDifferent, differentFiles)
     IN  IF act = "report"
         THEN /\ stdout' = stdout \o
                           [k \in 1..Len(differentFiles) |-> <<differentFiles[k]>>]
              /\ exitCode' = 2
              /\ pc' = "exited"
              /\ UNCHANGED <<projects, disk, events, pj>>
         ELSE /\ IF act = "save"
                 THEN /\ projects' = [projects EXCEPT
                            ![pj].project.manipulationSettings.newLineKind =
                               NewLineKindForSave(crLfWeight, @)]
                      /\ disk' = SaveSync(disk, mem, GetSourceFiles(projects[pj]))
                      /\ events' = Append(events, Event("save", projects[pj].key, ""))
                 ELSE UNCHANGED <<projects, disk, events>>
              /\ pj' = NextIndex(pj)
              /\ pc' = "project"
              /\ UNCHANGED <<stdout, exitCode>>
  /\ UNCHANGED <<argv, run, diskAtStart, i, mem, fi, sourceFiles, differentFiles,
                 crLfWeight, log, filePaths, listDifferent, stderr, ser>>

\* Line 113 and the natural end of the process.
Done ==
  /\ pc = "project"
  /\ pj > Len(projects)
  /\ stdout' = LoggerWrite(listDifferent, stdout, <<"Done!">>)
  /\ pc' = "exited"
  /\ UNCHANGED <<world, routing, batch, filePaths, listDifferent, stderr, exitCode>>

\* The same command line is run again on the files as they now are.
Rerun ==
  /\ pc = "exited"
  /\ run < MaxRuns
  /\ run' = run + 1
  /\ diskAtStart' = disk
  /\ pc' = "entry"
  /\ filePaths' = <<>>
  /\ listDifferent' = FALSE
  /\ i' = 1
  /\ projects' = <<>>
  /\ mem' = NoMem
  /\ pj' = 1
  /\ fi' = 1
  /\ sourceFiles' = <<>>
  /\ differentFiles' = <<>>
  /\ crLfWeight' = 0
  /\ stdout' = <<>>
  /\ stderr' = <<>>
  /\ exitCode' = 0
  /\ events' = <<>>
  /\ log' = <<>>
  /\ UNCHANGED <<argv, disk, ser>>

Next ==
  \/ NoFilesSpecified
  \/ PrintUsage
  \/ CallMain
  \/ RouteFile
  \/ RoutingDone
  \/ StartProject
  \/ ProcessFile
  \/ FinishProject
  \/ Done
  \/ Rerun

Spec == Init /\ [][Next]_vars

(***************************************************************************)
(* serializeImports on its own (cli.js 194-203): an import text is drawn,  *)
(* a second one is derived from it by swapping quote characters and by     *)
(* inserting one whitespace character, and both are serialized.            *)
(***************************************************************************)
SerAlphabet == {"a", "{", SQ, DQ, SP, NL}

\* A source file whose import declarations are the two pieces of s.
SourceFileOf(s, cut) ==
  [decls |-> <<SubSeq(s, 1, cut), SubSeq(s, cut + 1, Len(s))>>,
   eol |-> <<NL>>, body |-> <<>>]

InsertAt(s, k, c) == SubSeq(s, 1, k) \o <<c>> \o SubSeq(s, k + 1, Len(s))

\* The inserted character lands between two word characters.
BetweenWords(s, k) == k >= 1 /\ k < Len(s) /\ IsWord(s[k]) /\ IsWord(s[k + 1])

SerInit ==
  /\ argv = <<>>
  /\ run = 1
  /\ disk = InitDisk
  /\ diskAtStart = InitDisk
  /\ Fresh
  /\ serA \in UNION {[1..n -> SerAlphabet] : n \in 0..MaxLen}
  /\ serB = serA
  /\ serEdits = {}
  /\ serCut = 0
  /\ serOutA = <<>>
  /\ serOutB = <<>>
  /\ serPc = "draw"

main == <<argv, run, pc, filePaths, listDifferent, i, projects, mem, disk,
          diskAtStart, pj, fi, sourceFiles, differentFiles, crLfWeight,
          stdout, stderr, exitCode, events, log>>

\* One quote character of serB is written in the other style.
SwapQuote ==
  /\ serPc = "draw"
  /\ \E k \in 1..Len(serB) :
       /\ serB[k] \in {SQ, DQ}
       /\ serB' = [serB EXCEPT ![k] = IF @ = SQ THEN DQ ELSE SQ]
  /\ serEdits' = serEdits \cup {"quote"}
  /\ UNCHANGED <<main, serA, serCut, serOutA, serOutB, serPc>>

\* One whitespace character is inserted into serB.
InsertSpace ==
  /\ serPc = "draw"
  /\ Len(serB) <= Len(serA)
  /\ \E k \in 0..Len(serB), c \in {SP, NL} :
       /\ serB' = InsertAt(serB, k, c)
       /\ serEdits' = serEdits \cup
                        {IF BetweenWords(serB, k) THEN "wordgap" ELSE "space"}
  /\ UNCHANGED <<main, serA, serCut, serOutA, serOutB, serPc>>

\* Both texts, cut into two declarations, go through serializeImports.
Serialize ==
  /\ serPc = "draw"
  /\ \E cut \in 0..Len(serA) :
       /\ serCut' = cut
       /\ serOutA' = SerializeImports(SourceFileOf(serA, cut))
       /\ serOutB' = SerializeImports(SourceFileOf(serB, cut))
  /\ serPc' = "done"
  /\ UNCHANGED <<main, serA, serB, serEdits>>

SerNext ==
  \/ SwapQuote
  \/ InsertSpace
  \/ Serialize

SerSpec == SerInit /\ [][SerNext]_vars

(***************************************************************************)
(* Vocabulary of the properties.                                           *)
(***************************************************************************)
\* main was called by this invocation and the process has ended.
MainEnded == pc = "exited" /\ Len(argv) > 0 /\ HelpFlag \notin Range(argv)

\* Every path some project entry has attached.
Attached == UNION {Range(projects[k].files) : k \in 1..Len(projects)}

\* The file, as it was when the invocation started, has imports that
\* list-different mode reports: it is not ignored and organizing its imports
\* changes their serialization.
Disorganized(p) ==
  /\ ~HasIgnoreMarker(diskAtStart[p])
  /\ SerializeImports(diskAtStart[p]) #
       SerializeImports(OrganizeImports(diskAtStart[p]))

SavedKeys == {events[k].key : k \in {j \in 1..Len(events) : events[j].op = "save"}}

LogOf(key) == {j \in 1..Len(log) : log[j].key = key}

(***************************************************************************)
(* C1: in list-different mode, when at least one attached file has         *)
(* disorganized imports, the run ends with exit code 2 and standard output *)
(* holds exactly the paths of all such files of all projects, one per      *)
(* line.                                                                   *)
(***************************************************************************)
C1_ListsAllChangedFiles ==
  (MainEnded /\ listDifferent /\ \E p \in Attached : Disorganized(p))
    => /\ exitCode = 2
       /\ Range(stdout) = {<<p>> : p \in {q \in Attached : Disorganized(q)}}
       /\ Len(stdout) = Cardinality(Range(stdout))

(***************************************************************************)
(* C2: exit code policy of a run of main.  List-different mode: exit code  *)
(* 2 exactly when some attached file has disorganized imports, else 0 with *)
(* empty standard output.  Mutate mode: exit code 0.                       *)
(***************************************************************************)
C2_ExitCodePolicy ==
  MainEnded =>
    IF listDifferent
    THEN /\ exitCode \in {0, 2}
         /\ (exitCode = 2) <=> (\E p \in Attached : Disorganized(p))
         /\ (exitCode = 0) => (stdout = <<>>)
    ELSE exitCode = 0

C2_Witness ==
  /\ MainEnded
  /\ listDifferent
  /\ exitCode = 2
  /\ Len(projects) >= 2
  /\ stdout # <<>>

(***************************************************************************)
(* C3: in list-different mode nothing is ever saved and every file on disk *)
(* keeps the content it had when the run started.                          *)
(***************************************************************************)
C3_ListDifferentNeverWrites ==
  listDifferent => (disk = diskAtStart /\ SavedKeys = {})

\* A list-different run has ended with exit code 2 while the memory holds an
\* organized text that differs from the file on disk.
C3_Witness ==
  /\ MainEnded
  /\ listDifferent
  /\ exitCode = 2
  /\ \E p \in DOMAIN mem : mem[p] # disk[p]

(***************************************************************************)
(* C4: in mutate mode a file whose text holds the ignore marker is never   *)
(* transformed, never listed as changed, and keeps its text in memory and  *)
(* on disk, also when its project is saved.                                *)
(***************************************************************************)
C4_IgnoredFilesUntouched ==
  ~listDifferent =>
    \A p \in Files :
      HasIgnoreMarker(diskAtStart[p]) =>
        /\ \A k \in 1..Len(events) :
             ~(events[k].op = "organize" /\ events[k].path = p)
        /\ \A j \in 1..Len(log) : log[j].path = p => ~log[j].changed
        /\ p \notin Range(differentFiles)
        /\ p \in DOMAIN mem => mem[p] = diskAtStart[p]
        /\ disk[p] = diskAtStart[p]

\* A project was saved after one of its files was skipped for the marker and
\* another of its files was changed.
C4_Witness ==
  /\ ~listDifferent
  /\ \E j1, j2 \in 1..Len(log) :
       /\ log[j1].key = log[j2].key
       /\ log[j1].skipped
       /\ HasIgnoreMarker(diskAtStart[log[j1].path])
       /\ log[j2].changed
       /\ log[j1].key \in SavedKeys

(***************************************************************************)
(* C5: a command line with no positional path and without --help prints    *)
(* "No files specified." to standard error and exits with code 1, with no  *)
(* routing and no processing.                                              *)
(***************************************************************************)
C5_NoFilesIsUsageError ==
  (/\ pc = "exited"
   /\ SelectSeq(argv, LAMBDA arg : arg \notin {ListDifferentFlag, HelpFlag}) = <<>>
   /\ HelpFlag \notin Range(argv))
    => /\ stderr = <<<<"No files specified.">>>>
       /\ exitCode = 1
       /\ events = <<>>
       /\ log = <<>>

(***************************************************************************)
(* C6: when a project's configuration file is given on the command line,   *)
(* the entry of that project has scope "all" and, by the end of a mutate   *)
(* run, every source file the project holds has gone through the file      *)
(* loop.                                                                   *)
(***************************************************************************)
C6_ConfigPathProcessesWholeProject ==
  (MainEnded /\ ~listDifferent) =>
    \A k \in 1..Len(projects) :
      projects[k].key \in Range(filePaths) =>
        /\ projects[k].files = AllFiles
        /\ \A p \in GetSourceFiles(projects[k]) :
             \E j \in LogOf(projects[k].key) : log[j].path = p

(***************************************************************************)
(* C7: every input file that its nearest configuration does not recognize  *)
(* is attached to the ad hoc project, has gone through the file loop by    *)
(* the end of the run, and, if its imports are disorganized, is reported:  *)
(* printed in list-different mode, written to disk in mutate mode.         *)
(***************************************************************************)
Unrecognized(p) ==
  /\ Truthy(FindSync(Dirname(p)))
  /\ p \notin ConfigSources(FindSync(Dirname(p)))

C7_FallbackFilesProcessed ==
  MainEnded =>
    \A p \in Range(filePaths) :
      Unrecognized(p) =>
        /\ HasKey(projects, Fake)
        /\ p \in Range(projects[IndexOf(projects, Fake)].files)
        /\ \E j \in LogOf(Fake) : log[j].path = p
        /\ Disorganized(p) =>
             IF listDifferent
             THEN <<p>> \in Range(stdout)
             ELSE disk[p] = OrganizeImports(diskAtStart[p])

(***************************************************************************)
(* C8: a project created without a line-ending preference keeps a newline  *)
(* vote of 0 during its batch and keeps, also when saved, the newline kind *)
(* resolved when it was created.                                           *)
(***************************************************************************)
StaticNewLineKind(entry) ==
  GetManipulationSettings(ParseSync(entry.createdBy)).newLineKind

C8_NoVoteWithoutPreference ==
  \A k \in 1..Len(projects) :
    ~projects[k].detectNewLineKind =>
      /\ (pc = "file" /\ pj = k) => crLfWeight = 0
      /\ projects[k].project.manipulationSettings.newLineKind =
           StaticNewLineKind(projects[k])

\* A project without preference was saved after a file with CRLF was found
\* changed in it.
C8_Witness ==
  \E k \in 1..Len(projects) :
    /\ ~projects[k].detectNewLineKind
    /\ projects[k].key \in SavedKeys
    /\ \E j \in LogOf(projects[k].key) : log[j].changed /\ HasCrLf(log[j].before)

(***************************************************************************)
(* C9.  As claimed: a saved project with a line-ending preference has the  *)
(* newline kind of the majority of the files of its batch, counted on      *)
(* their original text (CRLF if more files contain CRLF than not, LF if    *)
(* fewer, the static default on a tie).                                    *)
(***************************************************************************)
MajorityKind(nCrLf, nLf, static) ==
  IF nCrLf > nLf THEN "CarriageReturnLineFeed"
  ELSE IF nCrLf < nLf THEN "LineFeed" ELSE static

C9_MajorityOfBatchFiles ==
  ~listDifferent =>
    \A k \in 1..Len(projects) :
      (projects[k].detectNewLineKind /\ projects[k].key \in SavedKeys) =>
        LET fs    == projects[k].files
            nCrLf == Cardinality({n \in 1..Len(fs) : HasCrLf(diskAtStart[fs[n]])})
            nLf   == Cardinality({n \in 1..Len(fs) : ~HasCrLf(diskAtStart[fs[n]])})
        IN  projects[k].project.manipulationSettings.newLineKind =
              MajorityKind(nCrLf, nLf, StaticNewLineKind(projects[k]))

(***************************************************************************)
(* C9, amended: a saved project with a line-ending preference has the      *)
(* newline kind of the majority of the passes of its file loop that were   *)
(* not skipped for the ignore marker, each pass counted by the text the    *)
(* file held in memory when the pass began (CRLF if more passes saw CRLF   *)
(* than not, LF if fewer, the static default on a tie).                    *)
(***************************************************************************)
C9_MajorityOfVotingPasses ==
  ~listDifferent =>
    \A k \in 1..Len(projects) :
      (projects[k].detectNewLineKind /\ projects[k].key \in SavedKeys) =>
        LET passes == {j \in LogOf(projects[k].key) : ~log[j].skipped}
            nCrLf  == Cardinality({j \in passes : HasCrLf(log[j].before)})
            nLf    == Cardinality({j \in passes : ~HasCrLf(log[j].before)})
        IN  projects[k].project.manipulationSettings.newLineKind =
              MajorityKind(nCrLf, nLf, StaticNewLineKind(projects[k]))

\* A project whose static default is LF was saved with CRLF by majority.
C9_Witness ==
  /\ ~listDifferent
  /\ \E k \in 1..Len(projects) :
       /\ projects[k].detectNewLineKind
       /\ projects[k].key \in SavedKeys
       /\ StaticNewLineKind(projects[k]) = "LineFeed"
       /\ projects[k].project.manipulationSettings.newLineKind =
            "CarriageReturnLineFeed"
       /\ \E j \in LogOf(projects[k].key) : ~log[j].skipped /\ ~HasCrLf(log[j].before)

(***************************************************************************)
(* C10: a second mutate run on the files as the first run saved them finds *)
(* no changed file in any project and saves nothing.                       *)
(***************************************************************************)
C10_SecondRunChangesNothing ==
  (run >= 2 /\ ~listDifferent) =>
    /\ \A j \in 1..Len(log) : ~log[j].changed
    /\ differentFiles = <<>>
    /\ SavedKeys = {}
    /\ disk = diskAtStart

\* The second run has ended after passing over a file the first run rewrote.
C10_Witness ==
  /\ run >= 2
  /\ MainEnded
  /\ ~listDifferent
  /\ \E j \in 1..Len(log) : ~log[j].skipped /\ InitDisk[log[j].path] # disk[log[j].path]

(***************************************************************************)
(* C11: two import texts that are the same except for the style of some    *)
(* quote characters have the same serialization.                           *)
(***************************************************************************)
C11_QuoteStyleStable ==
  (serPc = "done" /\ serEdits \subseteq {"quote"}) => serOutA = serOutB

\* Two texts that differ in a quote were serialized.
C11_Witness ==
  /\ serPc = "done"
  /\ serEdits = {"quote"}
  /\ serA # serB
  /\ \E k \in 1..Len(serOutA) : serOutA[k] = DQ

(***************************************************************************)
(* C12.  As claimed: every run of whitespace, also one between two word    *)
(* characters, collapses to nothing, so two import texts that differ only  *)
(* by whitespace have the same serialization and the serialization holds   *)
(* no whitespace character.                                                *)
(***************************************************************************)
C12_AllWhitespaceInsignificant ==
  (serPc = "done" /\ serEdits \subseteq {"space", "wordgap"}) =>
    /\ serOutA = serOutB
    /\ \A k \in 1..Len(serOutA) : ~IsSpace(serOutA[k])
    /\ \A k \in 1..Len(serOutB) : ~IsSpace(serOutB[k])

(***************************************************************************)
(* C12, amended: whitespace is insignificant except where it separates two *)
(* word characters.  Two import texts that differ only by whitespace that  *)
(* does not separate two word characters (or by the length or kind of a    *)
(* whitespace run) have the same serialization, and the only whitespace a  *)
(* serialization holds is a single space between two word characters.      *)
(***************************************************************************)
OnlyWordSpaces(out) ==
  \A k \in 1..Len(out) :
    IsSpace(out[k]) =>
      /\ out[k] = SP
      /\ k > 1 /\ k < Len(out)
      /\ IsWord(out[k - 1]) /\ IsWord(out[k + 1])

C12_WhitespaceOutsideWords ==
  serPc = "done" =>
    /\ serEdits \subseteq {"space"} => serOutA = serOutB
    /\ OnlyWordSpaces(serOutA)
    /\ OnlyWordSpaces(serOutB)

\* Two texts that differ by a whitespace character were serialized, and the
\* serialization keeps a space between two word characters.
C12_Witness ==
  /\ serPc = "done"
  /\ serEdits = {"space"}
  /\ serA # serB
  /\ \E k \in 1..Len(serOutA) : serOutA[k] = SP

(***************************************************************************)
(* Vocabulary of the routing properties.                                   *)
(***************************************************************************)
\* A step of the routing loop: addFileToProject has returned for filePaths[i].
Routed == pc = "route" /\ i' = i + 1

\* How many times path p is recorded in the entry of key.
Occurrences(projs, key, p) ==
  IF HasKey(projs, key)
  THEN Cardinality({n \in 1..Len(projs[IndexOf(projs, key)].files) :
                      projs[IndexOf(projs, key)].files[n] = p})
  ELSE 0

\* The project that owns a path: the one of its nearest configuration if
\* that project recognizes the file, else the ad hoc project.
OwnerOf(p) ==
  IF Truthy(FindSync(Dirname(p))) /\ p \in ConfigSources(FindSync(Dirname(p)))
  THEN FindSync(Dirname(p))
  ELSE Fake

\* The attach attempts among the events from index from + 1 on.
AttemptsAfter(evs, from) ==
  SelectSeq(SubSeq(evs, from + 1, Len(evs)), LAMBDA e : e.op \in {"attach", "miss"})

(***************************************************************************)
(* C13: each routing of a path records the path once, in the entry of the  *)
(* project that owns it (the real project if it recognizes the file, else  *)
(* the ad hoc one), and in no other entry.                                 *)
(***************************************************************************)
C13_RoutedToExactlyOne ==
  [][Routed =>
       \A key \in {CfgA, CfgB, Fake} :
         Occurrences(projects', key, filePaths[i]) =
           Occurrences(projects, key, filePaths[i]) +
             (IF key = OwnerOf(filePaths[i]) THEN 1 ELSE 0)]_vars

\* Routing is over; a path its configuration does not recognize is recorded
\* in the ad hoc entry while the entry of that configuration exists.
C13_Witness ==
  /\ pc = "project"
  /\ \E p \in Range(filePaths) :
       /\ Unrecognized(p)
       /\ HasKey(projects, FindSync(Dirname(p)))
       /\ Occurrences(projects, FindSync(Dirname(p)), p) = 0
       /\ Occurrences(projects, Fake, p) >= 1

UniqueKeys ==
  \A a, b \in 1..Len(projects) : a # b => projects[a].key # projects[b].key

CreatedOnce ==
  \A a, b \in 1..Len(events) :
    (a # b /\ events[a].op = "create" /\ events[b].op = "create")
      => events[a].key # events[b].key

EntriesKept ==
  /\ Len(projects') >= Len(projects)
  /\ \A k \in 1..Len(projects) :
       /\ projects'[k].key = projects[k].key
       /\ projects'[k].createdBy = projects[k].createdBy
       /\ projects'[k].project.tsConfigFilePath = projects[k].project.tsConfigFilePath
       /\ Len(projects'[k].files) >= Len(projects[k].files)

C15_RegistryUnique ==
  /\ [](UniqueKeys /\ CreatedOnce)
  /\ [][run' = run => EntriesKept]_vars

\* Two different paths are attached to the one entry of their identity.
C15_Witness ==
  \E k \in 1..Len(projects) :
    /\ Cardinality(Range(projects[k].files)) >= 2
    /\ Len(projects) >= 2

(***************************************************************************)
(* C16: in mutate mode a project is saved at most once, only after every   *)
(* one of its files has gone through the file loop, and, by the end of the *)
(* run, exactly when the transform changes the text of one of its files    *)
(* that is not ignored.                                                    *)
(***************************************************************************)
SavesOf(key) == {e \in 1..Len(events) : events[e].op = "save" /\ events[e].key = key}

PassesBefore(key, e) ==
  Cardinality({n \in 1..(e - 1) :
                 events[n].op \in {"organize", "skip"} /\ events[n].key = key})

WouldChange(p) ==
  /\ ~HasIgnoreMarker(diskAtStart[p])
  /\ FullText(diskAtStart[p]) # FullText(OrganizeImports(diskAtStart[p]))

C16_SavedOnceAfterBatch ==
  ~listDifferent =>
    \A k \in 1..Len(projects) :
      /\ Cardinality(SavesOf(projects[k].key)) <= 1
      /\ \A e \in SavesOf(projects[k].key) :
           PassesBefore(projects[k].key, e) = Len(projects[k].files)
      /\ MainEnded =>
           ((SavesOf(projects[k].key) # {}) <=>
              (\E p \in Range(projects[k].files) : WouldChange(p)))

\* A mutate run has ended: one project with several files was saved, another
\* project with files was not.
C16_Witness ==
  /\ MainEnded
  /\ ~listDifferent
  /\ \E k1, k2 \in 1..Len(projects) :
       /\ SavesOf(projects[k1].key) # {}
       /\ Len(projects[k1].files) >= 2
       /\ SavesOf(projects[k2].key) = {}
       /\ Len(projects[k2].files) >= 1

(***************************************************************************)
(* C17.  As claimed: in a mutate run no organize-imports transform is      *)
(* applied to any file after the first save of any project.                *)
(***************************************************************************)
C17_NoTransformAfterAnySave ==
  ~listDifferent =>
    \A e1, e2 \in 1..Len(events) :
      (e1 < e2 /\ events[e1].op = "save") => events[e2].op # "organize"

(***************************************************************************)
(* C17, amended: in a mutate run no organize-imports transform is applied  *)
(* to a file of a project after that project was saved; the files of the   *)
(* projects that come later in the registry are transformed after the save *)
(* of the earlier ones.                                                    *)
(***************************************************************************)
C17_NoTransformAfterOwnSave ==
  ~listDifferent =>
    \A e1, e2 \in 1..Len(events) :
      (e1 < e2 /\ events[e1].op = "save" /\ events[e2].op = "organize")
        => events[e1].key # events[e2].key

\* A file of a second project was transformed after the first project's save.
C17_Witness ==
  /\ ~listDifferent
  /\ \E e1, e2 \in 1..Len(events) :
       /\ e1 < e2
       /\ events[e1].op = "save"
       /\ events[e2].op = "organize"
       /\ events[e1].key # events[e2].key

(***************************************************************************)
(* C18: a path given twice is listed as changed at most once, in both      *)
(* modes: the changed-file list of a project never holds a path twice and  *)
(* no path is found changed by two passes of one run.                      *)
(***************************************************************************)
C18_ChangedListedOnce ==
  /\ \A a, b \in 1..Len(differentFiles) :
       a # b => differentFiles[a] # differentFiles[b]
  /\ \A a, b \in 1..Len(log) :
       (a # b /\ log[a].path = log[b].path) => ~(log[a].changed /\ log[b].changed)

\* The second pass over a path found it unchanged after the first pass had
\* found it changed.
C18_Witness ==
  \E a, b \in 1..Len(log) :
    /\ a < b
    /\ log[a].path = log[b].path
    /\ log[a].changed
    /\ ~log[b].skipped
    /\ ~log[b].changed

(***************************************************************************)
(* C19: an entry's indentation, quote style and detectNewLineKind flag are *)
(* those of the style settings of the first path that referred to its      *)
(* identity, whatever the settings of the paths routed to it later, and    *)
(* the newline vote of its batch is governed by that flag.                 *)
(***************************************************************************)
FirstReference(key) ==
  CHOOSE n \in 1..Len(events) :
    /\ events[n].key = key
    /\ \A m \in 1..(n - 1) : events[m].key # key

VoteTally(key) ==
  Cardinality({j \in LogOf(key) : ~log[j].skipped /\ HasCrLf(log[j].before)})
  - Cardinality({j \in LogOf(key) : ~log[j].skipped /\ ~HasCrLf(log[j].before)})

C19_StyleOfFirstFile ==
  \A k \in 1..Len(projects) :
    LET entry == projects[k]
        first == events[FirstReference(entry.key)]
        ec    == ParseSync(first.path)
    IN  /\ first.op = "create"
        /\ entry.detectNewLineKind = Truthy(ec.end_of_line)
        /\ entry.project.manipulationSettings.indentationText =
             GetManipulationSettings(ec).indentationText
        /\ entry.project.manipulationSettings.quoteKind = "Single"
        /\ (pc = "file" /\ pj = k) =>
             crLfWeight = IF Truthy(ec.end_of_line) THEN VoteTally(entry.key) ELSE 0

\* The ad hoc entry was created by a path without line-ending preference; a
\* path whose settings declare one went through its file loop without a vote.
C19_Witness ==
  /\ pc = "file"
  /\ pj <= Len(projects)
  /\ ~projects[pj].detectNewLineKind
  /\ crLfWeight = 0
  /\ \E j \in LogOf(projects[pj].key) :
       /\ ~log[j].skipped
       /\ Truthy(ParseSync(log[j].path).end_of_line)

====
